---- MODULE Spec2Model ----
(***************************************************************************)
(* Model of nickelm/mote: the Surface Nets extractor (js/SurfaceNets.js)   *)
(* and the TinyPlanet terrain (signed distance function, modification      *)
(* list, mesh regeneration).                                               *)
(*                                                                         *)
(* Numbers.  The JavaScript code computes in IEEE doubles.  The model      *)
(* computes in fixed point: a coordinate is an integer, a field value or a *)
(* vertex coordinate is an integer count of 1/FixScale, Math.sqrt and the  *)
(* divisions round to the nearest point of that grid.  NaN is kept as a    *)
(* value of its own: every arithmetic operation propagates it and every    *)
(* comparison with it is false, as in IEEE 754.                            *)
(***************************************************************************)
EXTENDS Integers, Sequences, FiniteSets, TLC

VARIABLES
    \* ---- one run of SurfaceNets.extract (its arguments and its locals)
    densityFunc,    \* the field callback, as its table position -> value
    bounds,         \* <<min, max>>, each a triple of coordinates
    resolution,     \* samples per axis
    pc,             \* "idle" | "march" | "done"
    cell,           \* loop counters <<x, y, z>> of the march
    vertices,       \* const vertices = []
    faces,          \* const faces = []
    vertexBuffer,   \* const vertexBuffer = new Map()
    grid,           \* const grid = new Float32Array(8)
    calls,          \* number of densityFunc invocations of this run
    local,          \* mask, edgeMask, vertCount of the cell just marched
    callNo,         \* 1 for the first extract call, 2 for its repetition
    firstResult,    \* what the first call returned
    result,         \* what the latest finished call returned
    \* ---- the TinyPlanet object
    modifications,  \* this.modifications
    mesh,           \* this.mesh (geometry positions, index, material.wireframe)
    wireframe,      \* this.wireframe
    terrain,        \* the distance to the unmodified terrain at the sampled points
    ret,            \* the value returned by the last TinyPlanet method call
    \* ---- calls of noise3D taken on their own
    noise           \* the point's cell, the perm indices read, the corner hashes

extractVars == <<densityFunc, bounds, resolution, pc, cell, vertices, faces,
                 vertexBuffer, grid, calls, local, callNo, firstResult, result>>
planetVars == <<modifications, mesh, wireframe, terrain, ret>>
noiseVars == <<noise>>
vars == <<extractVars, planetVars, noiseVars>>

----------------------------------------------------------------------------
(* Bounds of the model *)

\* Largest resolution of an extraction run.
MaxRes == 4
\* Fixed-point resolution: values are counted in units of 1/FixScale.
FixScale == 100

----------------------------------------------------------------------------
(* Numbers *)

\* The IEEE NaN (0/0 at part_001:89); a value outside the range of the model's numbers.
NaN == -1000000000
\* The IEEE Infinity (x/0 with x > 0 at SurfaceNets.js:41 when resolution = 1).
Infinity == 1000000000
\* Map.get on a missing key.
Undefined == -1

IsNaN(a) == a = NaN
Abs(a) == IF a < 0 THEN -a ELSE a

\* n / d for n >= 0, d > 0, rounded to the nearest whole number
RoundDiv(n, d) == (2 * n + d) \div (2 * d)

FAdd(a, b) == IF IsNaN(a) \/ IsNaN(b) THEN NaN ELSE a + b
FSub(a, b) == IF IsNaN(a) \/ IsNaN(b) THEN NaN ELSE a - b
FNeg(a) == IF IsNaN(a) THEN NaN ELSE -a
\* a < b, a <= b on doubles: false when either side is NaN
FLt(a, b) == ~IsNaN(a) /\ ~IsNaN(b) /\ a < b
FLeq(a, b) == ~IsNaN(a) /\ ~IsNaN(b) /\ a <= b
\* a * b of two fixed-point values
FMul(a, b) ==
    IF IsNaN(a) \/ IsNaN(b) THEN NaN
    ELSE LET m == RoundDiv(Abs(a) * Abs(b), FixScale)
         IN  IF (a < 0) = (b < 0) THEN m ELSE -m
\* a / b of two values on the same scale, as a fixed-point value
FDiv(a, b) ==
    IF IsNaN(a) \/ IsNaN(b) THEN NaN
    ELSE IF b = 0 THEN (IF a = 0 THEN NaN ELSE IF a > 0 THEN Infinity ELSE -Infinity)
    ELSE LET q == RoundDiv(Abs(a) * FixScale, Abs(b))
         IN  IF (a < 0) = (b < 0) THEN q ELSE -q
\* Math.min, Math.max: NaN if either argument is NaN
MathMin(a, b) == IF IsNaN(a) \/ IsNaN(b) THEN NaN ELSE IF a <= b THEN a ELSE b
MathMax(a, b) == IF IsNaN(a) \/ IsNaN(b) THEN NaN ELSE IF a >= b THEN a ELSE b

RECURSIVE SqrtSearch(_, _, _)
SqrtSearch(n, lo, hi) ==
    IF lo >= hi THEN lo
    ELSE LET mid == (lo + hi + 1) \div 2
         IN  IF mid * mid <= n THEN SqrtSearch(n, mid, hi)
             ELSE SqrtSearch(n, lo, mid - 1)
\* the square root of m >= 0, rounded to the nearest whole number
SqrtNearest(m) ==
    LET r == SqrtSearch(m, 0, 46340) IN IF m - r * r > r THEN r + 1 ELSE r
\* Math.sqrt of the whole number n, as a fixed-point value
MathSqrt(n) == SqrtNearest(n * FixScale * FixScale)

\* (n >> k) & 1
BitAt(n, k) == (n \div (2 ^ k)) % 2
\* a ^ b on 3-bit corner numbers
BitXor(a, b) ==
    ((BitAt(a, 0) + BitAt(b, 0)) % 2)
    + 2 * ((BitAt(a, 1) + BitAt(b, 1)) % 2)
    + 4 * ((BitAt(a, 2) + BitAt(b, 2)) % 2)

RECURSIVE SumRange(_, _, _)
SumRange(f, lo, hi) == IF lo > hi THEN 0 ELSE f[lo] + SumRange(f, lo + 1, hi)

----------------------------------------------------------------------------
(* SurfaceNets.init: the cube-edge table and the edge table *)

\* A table built from the edges along x and y only.
EdgeAxisBitsXY == <<1, 2>>

\* the values of j in "for (let j = 1; j <= 4; j <<= 1)"
EdgeAxisBits == <<1, 2, 4>>

\* the (i, j) pairs of the two nested loops, in iteration order
InitLoopPairs ==
    [n \in 1..(8 * Len(EdgeAxisBits)) |->
        <<(n - 1) \div Len(EdgeAxisBits), EdgeAxisBits[((n - 1) % Len(EdgeAxisBits)) + 1]>>]

\* the pairs that pass "if (i <= p)", in iteration order
KeptEdges == SelectSeq(InitLoopPairs, LAMBDA ij : ij[1] <= BitXor(ij[1], ij[2]))

\* this.cubeEdges: Int32Array(24), zero where the loop stored nothing
cubeEdges ==
    [k \in 0..23 |->
        IF (k \div 2) + 1 > Len(KeptEdges) THEN 0
        ELSE LET ij == KeptEdges[(k \div 2) + 1]
             IN  IF k % 2 = 0 THEN ij[1] ELSE BitXor(ij[1], ij[2])]

\* this.edgeTable: Int32Array(256)
edgeTable ==
    [i \in 0..255 |->
        SumRange([e \in 0..11 |->
                    IF BitAt(i, cubeEdges[2 * e]) # BitAt(i, cubeEdges[2 * e + 1])
                    THEN 2 ^ e ELSE 0], 0, 11)]

----------------------------------------------------------------------------
(* SurfaceNets.extract *)

\* A key that leaves out the z coordinate.
getKeyFlat(x, y, z) == <<x, y, 0>>

\* const getKey = (x, y, z) => `${x},${y},${z}`
getKey(x, y, z) == <<x, y, z>>

EmptyMap == << >>
\* A lookup that counts the vertices from 1.
MapGetOneBased(m, k) == IF k \in DOMAIN m THEN m[k] + 1 ELSE Undefined

MapGet(m, k) == IF k \in DOMAIN m THEN m[k] ELSE Undefined
MapSet(m, k, v) == (k :> v) @@ m

\* dims[j] - 1 cells per axis
Dims(res) == <<res, res, res>>

\* scale[j] = (bounds[1][j] - bounds[0][j]) / (dims[j] - 1); the model's bounds
\* make the quotient a whole number of coordinate units
ScaleOf(b, res) ==
    [j \in 1..3 |->
        IF Dims(res)[j] - 1 = 0
        THEN (IF b[2][j] - b[1][j] = 0 THEN NaN
              ELSE IF b[2][j] - b[1][j] > 0 THEN Infinity ELSE -Infinity)
        ELSE (b[2][j] - b[1][j]) \div (Dims(res)[j] - 1)]

\* xPos, yPos, zPos of a cell
CellPos(b, scale, c) == [j \in 1..3 |-> b[1][j] + c[j] * scale[j]]

\* the position of corner g: dx = bit 0, dy = bit 1, dz = bit 2 of g (the
\* loops run dz outermost, dx innermost, g counting up)
CornerPos(pos, scale, g) == [j \in 1..3 |-> pos[j] + BitAt(g, j - 1) * scale[j]]

\* A corner loop that samples the field only at the corners with dx = 1 and
\* takes the corners with dx = 0 from the buffer, where the previous cell
\* left the values of its dx = 1 corners.
SampleCornerShared(acc, f, pos, scale, g) ==
    LET shared == BitAt(g, 0) = 0
        val == IF shared THEN acc.grid[g + 1] ELSE f[CornerPos(pos, scale, g)]
    IN  [grid |-> (g :> val) @@ acc.grid,
         mask |-> acc.mask + (IF FLt(val, 0) THEN 2 ^ g ELSE 0),
         calls |-> acc.calls + (IF shared THEN 0 ELSE 1)]

\* The body of the innermost corner loop, for corner g: one call of the
\* field, grid[g] = val, mask |= val < 0 ? (1 << g) : 0.
SampleCorner(acc, f, pos, scale, g) ==
    LET val == f[CornerPos(pos, scale, g)]
    IN  [grid |-> (g :> val) @@ acc.grid,
         mask |-> acc.mask + (IF FLt(val, 0) THEN 2 ^ g ELSE 0),
         calls |-> acc.calls + 1]

\* the three corner loops (dz, dy, dx; g counts up from 0) from corner g on
RECURSIVE CornerLoop(_, _, _, _, _)
CornerLoop(acc, f, pos, scale, g) ==
    IF g >= 8 THEN acc
    ELSE CornerLoop(SampleCorner(acc, f, pos, scale, g), f, pos, scale, g + 1)

\* A skip test that knows the empty cell only.
IsUniformMaskEmptyOnly(mask) == mask = 0

\* if (mask === 0 || mask === 0xff) continue
IsUniformMask(mask) == mask = 0 \/ mask = 255

\* the body of "for (let i = 0; i < 12; ++i)" from edge i on
RECURSIVE EdgeLoop(_, _, _, _)
EdgeLoop(i, edgeMask, g, acc) ==
    IF i >= 12 THEN acc
    ELSE IF BitAt(edgeMask, i) = 0 THEN EdgeLoop(i + 1, edgeMask, g, acc)
    ELSE LET e0 == cubeEdges[2 * i]
             e1 == cubeEdges[2 * i + 1]
             g0 == g[e0]
             g1 == g[e1]
             t == FDiv(g0, FSub(g0, g1))
             add(j) == LET a == BitAt(e0, j - 1)
                           b == BitAt(e1, j - 1)
                       IN  IF a # b THEN (IF a = 1 THEN FSub(FixScale, t) ELSE t)
                           ELSE (IF a = 1 THEN FixScale ELSE 0)
         IN  EdgeLoop(i + 1, edgeMask, g,
                      [v |-> [j \in 1..3 |-> FAdd(acc.v[j], add(j))],
                       vertCount |-> acc.vertCount + 1])

\* the new vertex: cell position + v * (1.0 / vertCount) * scale
VertexOf(pos, scale, acc) ==
    [j \in 1..3 |->
        IF IsNaN(acc.v[j]) THEN NaN
        ELSE IF acc.vertCount = 0 THEN NaN     \* 0 * Infinity
        ELSE pos[j] * FixScale + RoundDiv(acc.v[j], acc.vertCount) * scale[j]]

\* A quad that is stitched with its first triangle only.
QuadFacesOneTriangle(vb, mask, k0, k1, k2, k3) ==
    LET v0 == MapGet(vb, k0)
        v1 == MapGet(vb, k1)
        v2 == MapGet(vb, k2)
        v3 == MapGet(vb, k3)
    IN  IF v0 # Undefined /\ v1 # Undefined /\ v2 # Undefined /\ v3 # Undefined
        THEN IF BitAt(mask, 0) = 1
             THEN << <<v0, v1, v2>> >>
             ELSE << <<v0, v3, v2>> >>
        ELSE << >>

\* A quad that is stitched without looking whether its vertices exist.
QuadFacesUnchecked(vb, mask, k0, k1, k2, k3) ==
    LET v0 == MapGet(vb, k0)
        v1 == MapGet(vb, k1)
        v2 == MapGet(vb, k2)
        v3 == MapGet(vb, k3)
    IN  IF BitAt(mask, 0) = 1
        THEN << <<v0, v1, v2>>, <<v0, v2, v3>> >>
        ELSE << <<v0, v3, v2>>, <<v0, v2, v1>> >>

\* A quad that is wound the same way whatever the sign at corner 0.
QuadFacesOneWinding(vb, mask, k0, k1, k2, k3) ==
    LET v0 == MapGet(vb, k0)
        v1 == MapGet(vb, k1)
        v2 == MapGet(vb, k2)
        v3 == MapGet(vb, k3)
    IN  IF v0 # Undefined /\ v1 # Undefined /\ v2 # Undefined /\ v3 # Undefined
        THEN << <<v0, v1, v2>>, <<v0, v2, v3>> >>
        ELSE << >>

\* the two triangles of one quad, or nothing when a vertex is missing
QuadFaces(vb, mask, k0, k1, k2, k3) ==
    LET v0 == MapGet(vb, k0)
        v1 == MapGet(vb, k1)
        v2 == MapGet(vb, k2)
        v3 == MapGet(vb, k3)
    IN  IF v0 # Undefined /\ v1 # Undefined /\ v2 # Undefined /\ v3 # Undefined
        THEN IF BitAt(mask, 0) = 1
             THEN << <<v0, v1, v2>>, <<v0, v2, v3>> >>
             ELSE << <<v0, v3, v2>>, <<v0, v2, v1>> >>
        ELSE << >>

\* X-axis faces (need neighbors at y-1 and z-1)
FacesX(vb, mask, edgeMask, x, y, z) ==
    IF BitAt(edgeMask, 0) = 1 /\ y > 0 /\ z > 0
    THEN QuadFaces(vb, mask, getKey(x, y, z), getKey(x, y - 1, z),
                   getKey(x, y - 1, z - 1), getKey(x, y, z - 1))
    ELSE << >>

\* Y-axis faces that start one cell too late along x.
FacesYInner(vb, mask, edgeMask, x, y, z) ==
    IF BitAt(edgeMask, 1) = 1 /\ x > 1 /\ z > 0
    THEN QuadFaces(vb, mask, getKey(x, y, z), getKey(x, y, z - 1),
                   getKey(x - 1, y, z - 1), getKey(x - 1, y, z))
    ELSE << >>

\* Y-axis faces (need neighbors at x-1 and z-1)
FacesY(vb, mask, edgeMask, x, y, z) ==
    IF BitAt(edgeMask, 1) = 1 /\ x > 0 /\ z > 0
    THEN QuadFaces(vb, mask, getKey(x, y, z), getKey(x, y, z - 1),
                   getKey(x - 1, y, z - 1), getKey(x - 1, y, z))
    ELSE << >>

\* Z-axis faces (need neighbors at x-1 and y-1)
FacesZ(vb, mask, edgeMask, x, y, z) ==
    IF BitAt(edgeMask, 2) = 1 /\ x > 0 /\ y > 0
    THEN QuadFaces(vb, mask, getKey(x, y, z), getKey(x - 1, y, z),
                   getKey(x - 1, y - 1, z), getKey(x, y - 1, z))
    ELSE << >>

\* The three nested for loops: the first cell, the loop condition, the step.
FirstCell == <<0, 0, 0>>
InLoop(res, c) == c[3] < Dims(res)[3] - 1 /\ Dims(res)[2] - 1 > 0 /\ Dims(res)[1] - 1 > 0
NextCell(res, c) ==
    IF c[1] + 1 < Dims(res)[1] - 1 THEN <<c[1] + 1, c[2], c[3]>>
    ELSE IF c[2] + 1 < Dims(res)[2] - 1 THEN <<0, c[2] + 1, c[3]>>
    ELSE <<0, 0, c[3] + 1>>

\* The locals of extract that live across cells, the loop counters among them.
InitRun ==
    [cell |-> FirstCell,
     vertices |-> << >>, faces |-> << >>, vertexBuffer |-> EmptyMap,
     grid |-> (0 :> 0) @@ (1 :> 0) @@ (2 :> 0) @@ (3 :> 0)
              @@ (4 :> 0) @@ (5 :> 0) @@ (6 :> 0) @@ (7 :> 0),
     calls |-> 0,
     local |-> [cell |-> <<0, 0, 0>>, mask |-> 0, averaged |-> FALSE,
                edgeMask |-> 0, vertCount |-> 0]]

\* One iteration of the innermost loop, for the cell <<x, y, z>> = st.cell,
\* and the step to the next cell.
MarchCell(st, f, b, res) ==
    LET c == st.cell
        scale == ScaleOf(b, res)
        pos == CellPos(b, scale, c)
        smp == CornerLoop([grid |-> st.grid, mask |-> 0, calls |-> st.calls],
                          f, pos, scale, 0)
        g == smp.grid
        mask == smp.mask
        n == smp.calls
    IN  IF IsUniformMask(mask)
        THEN [st EXCEPT !.cell = NextCell(res, c), !.grid = g, !.calls = n,
                        !.local = [cell |-> c, mask |-> mask, averaged |-> FALSE,
                                   edgeMask |-> 0, vertCount |-> 0]]
        ELSE LET edgeMask == edgeTable[mask]
                 acc == EdgeLoop(0, edgeMask, g, [v |-> <<0, 0, 0>>, vertCount |-> 0])
                 vertIdx == Len(st.vertices)
                 vb == MapSet(st.vertexBuffer, getKey(c[1], c[2], c[3]), vertIdx)
             IN  [cell |-> NextCell(res, c),
                  vertices |-> Append(st.vertices, VertexOf(pos, scale, acc)),
                  faces |-> st.faces
                            \o FacesX(vb, mask, edgeMask, c[1], c[2], c[3])
                            \o FacesY(vb, mask, edgeMask, c[1], c[2], c[3])
                            \o FacesZ(vb, mask, edgeMask, c[1], c[2], c[3]),
                  vertexBuffer |-> vb,
                  grid |-> g,
                  calls |-> n,
                  local |-> [cell |-> c, mask |-> mask, averaged |-> TRUE,
                             edgeMask |-> edgeMask, vertCount |-> acc.vertCount]]

\* return { vertices, faces }
ResultOf(st) == [vertices |-> st.vertices, faces |-> st.faces]

\* "for (let x ...)": the cells of the row <<y, z>> = yz from st.cell on
RECURSIVE MarchRow(_, _, _, _, _)
MarchRow(st, f, b, res, yz) ==
    IF InLoop(res, st.cell) /\ <<st.cell[2], st.cell[3]>> = yz
    THEN CHOOSE r \in {MarchRow(nx, f, b, res, yz) : nx \in {MarchCell(st, f, b, res)}} : TRUE
    ELSE st

\* "for (let y ...)": the rows of the slab z from the row of st.cell on
RECURSIVE MarchSlab(_, _, _, _, _)
MarchSlab(st, f, b, res, z) ==
    IF InLoop(res, st.cell) /\ st.cell[3] = z
    THEN CHOOSE r \in {MarchSlab(nx, f, b, res, z) :
                       nx \in {MarchRow(st, f, b, res, <<st.cell[2], z>>)}} : TRUE
    ELSE st

\* "for (let z ...)": the slabs from the one of st.cell on.  Each loop binds
\* the state it hands on (nx) before it goes on.
RECURSIVE MarchFrom(_, _, _, _)
MarchFrom(st, f, b, res) ==
    IF InLoop(res, st.cell)
    THEN CHOOSE r \in {MarchFrom(nx, f, b, res) :
                       nx \in {MarchSlab(st, f, b, res, st.cell[3])}} : TRUE
    ELSE st

\* extract(densityFunc, bounds, resolution), run to completion
extract(f, b, res) == ResultOf(MarchFrom(InitRun, f, b, res))

----------------------------------------------------------------------------
(* Runs of extract on sampled fields (specification SpecExtract) *)

\* bounds[0] and the cell size per axis of the fields below
FieldMin == <<-2, 0, 4>>
CellSize == <<2, 3, 4>>
FieldBounds(res) ==
    <<FieldMin, [j \in 1..3 |-> FieldMin[j] + CellSize[j] * (IF res > 1 THEN res - 1 ELSE 1)]>>

\* the lattice of sample points, by index and by position
Lattice(res) == (0..(res - 1)) \X (0..(res - 1)) \X (0..(res - 1))
LatticePos(res, i) == [j \in 1..3 |-> FieldMin[j] + i[j] * CellSize[j]]

\* The fields: the negative samples are any subset of the corners of one
\* cell (the block at offset off); the magnitudes vary with the position.
\* Up to resolution 3 the block is any cell of the lattice, so it touches
\* the boundary of the volume on every side; from resolution 4 on it is the
\* cell at <<1, 1, 1>>, which lies strictly inside.
BlockOffsets(res) ==
    IF res <= 3
    THEN LET top == IF res - 2 < 0 THEN 0 ELSE res - 2
         IN  (0..top) \X (0..top) \X (0..top)
    ELSE {<<1, 1, 1>>}
Block(res, off) ==
    {i \in Lattice(res) : \A j \in 1..3 : i[j] \in {off[j], off[j] + 1}}
NegValue(i) == -((FixScale \div 2) * (1 + ((i[1] + i[2] + i[3]) % 3)))
PosValue(i) == (FixScale \div 2) * ((i[1] + 2 * i[2] + 3 * i[3]) % 3)
FieldOf(res, neg) ==
    [p \in {LatticePos(res, i) : i \in Lattice(res)} |->
        LET i == CHOOSE q \in Lattice(res) : LatticePos(res, q) = p
        IN  IF i \in neg THEN NegValue(i) ELSE PosValue(i)]

\* no call of noise3D is being followed
NoNoise == [floor |-> <<0, 0, 0>>, cell |-> <<0, 0, 0>>, reads |-> {}, hash |-> << >>, calls |-> 0]

NoResult == [vertices |-> << >>, faces |-> << >>]
NoPlanet ==
    /\ modifications = << >>
    /\ mesh = [positions |-> << >>, index |-> << >>, wireframe |-> FALSE]
    /\ wireframe = FALSE
    /\ terrain = << >>
    /\ ret = << >>

\* the locals of the running call, as one record
CurRun ==
    [cell |-> cell, vertices |-> vertices, faces |-> faces, vertexBuffer |-> vertexBuffer,
     grid |-> grid, calls |-> calls, local |-> local]

\* A call that reuses the arrays and the map of the call before it.
BeginRunStale(old) == [old EXCEPT !.cell = FirstCell]

\* lines 46-52: every call allocates its own vertices, faces, grid, vertexBuffer
BeginRun(old) == InitRun

SetRun(st) ==
    /\ cell' = st.cell
    /\ vertices' = st.vertices
    /\ faces' = st.faces
    /\ vertexBuffer' = st.vertexBuffer
    /\ grid' = st.grid
    /\ calls' = st.calls
    /\ local' = st.local

InitExtract ==
    /\ \E res \in 1..MaxRes : \E off \in BlockOffsets(res) :
         \E neg \in SUBSET Block(res, off) :
            /\ resolution = res
            /\ bounds = FieldBounds(res)
            /\ densityFunc = FieldOf(res, neg)
    /\ pc = "idle"
    /\ cell = FirstCell
    /\ vertices = InitRun.vertices
    /\ faces = InitRun.faces
    /\ vertexBuffer = InitRun.vertexBuffer
    /\ grid = InitRun.grid
    /\ calls = InitRun.calls
    /\ local = InitRun.local
    /\ callNo = 1
    /\ firstResult = NoResult
    /\ result = NoResult
    /\ NoPlanet
    /\ noise = NoNoise

\* extract is entered: lines 39-52
ExtractBegin ==
    /\ pc = "idle"
    /\ pc' = "march"
    /\ SetRun(BeginRun(CurRun))
    /\ UNCHANGED <<densityFunc, bounds, resolution, callNo, firstResult, result>>
    /\ UNCHANGED planetVars
    /\ UNCHANGED noiseVars

\* one iteration of the innermost loop: lines 57-186
ExtractMarch ==
    /\ pc = "march"
    /\ InLoop(resolution, cell)
    /\ SetRun(MarchCell(CurRun, densityFunc, bounds, resolution))
    /\ UNCHANGED <<densityFunc, bounds, resolution, pc, callNo, firstResult, result>>
    /\ UNCHANGED planetVars
    /\ UNCHANGED noiseVars

\* the loops are over: line 190
ExtractReturn ==
    /\ pc = "march"
    /\ ~InLoop(resolution, cell)
    /\ pc' = "done"
    /\ result' = ResultOf(CurRun)
    /\ firstResult' = IF callNo = 1 THEN ResultOf(CurRun) ELSE firstResult
    /\ UNCHANGED <<densityFunc, bounds, resolution, cell, vertices, faces,
                   vertexBuffer, grid, calls, local, callNo>>
    /\ UNCHANGED planetVars
    /\ UNCHANGED noiseVars

\* the caller calls extract again with the same field, bounds and resolution
ExtractAgain ==
    /\ pc = "done"
    /\ callNo = 1
    /\ callNo' = 2
    /\ pc' = "idle"
    /\ UNCHANGED <<densityFunc, bounds, resolution, cell, vertices, faces,
                   vertexBuffer, grid, calls, local, firstResult, result>>
    /\ UNCHANGED planetVars
    /\ UNCHANGED noiseVars

NextExtract == ExtractBegin \/ ExtractMarch \/ ExtractReturn \/ ExtractAgain

SpecExtract == InitExtract /\ [][NextExtract]_vars

----------------------------------------------------------------------------
(* TinyPlanet: noise *)

\* the array p of initNoise
PermBase ==
   <<
      151, 160, 137, 91, 90, 15, 131, 13, 201, 95, 96, 53, 194, 233, 7, 225,
      140, 36, 103, 30, 69, 142, 8, 99, 37, 240, 21, 10, 23, 190, 6, 148,
      247, 120, 234, 75, 0, 26, 197, 62, 94, 252, 219, 203, 117, 35, 11, 32,
      57, 177, 33, 88, 237, 149, 56, 87, 174, 20, 125, 136, 171, 168, 68, 175,
      74, 165, 71, 134, 139, 48, 27, 166, 77, 146, 158, 231, 83, 111, 229, 122,
      60, 211, 133, 230, 220, 105, 92, 41, 55, 46, 245, 40, 244, 102, 143, 54,
      65, 25, 63, 161, 1, 216, 80, 73, 209, 76, 132, 187, 208, 89, 18, 169,
      200, 196, 135, 130, 116, 188, 159, 86, 164, 100, 109, 198, 173, 186, 3, 64,
      52, 217, 226, 250, 124, 123, 5, 202, 38, 147, 118, 126, 255, 82, 85, 212,
      207, 206, 59, 227, 47, 16, 58, 17, 182, 189, 28, 42, 223, 183, 170, 213,
      119, 248, 152, 2, 44, 154, 163, 70, 221, 153, 101, 155, 167, 43, 172, 9,
      129, 22, 39, 253, 19, 98, 108, 110, 79, 113, 224, 232, 178, 185, 112, 104,
      218, 246, 97, 228, 251, 34, 242, 193, 238, 210, 144, 12, 191, 179, 162, 241,
      81, 51, 145, 235, 249, 14, 239, 107, 49, 192, 214, 31, 181, 199, 106, 157,
      184, 84, 204, 176, 115, 121, 50, 45, 127, 4, 150, 254, 138, 236, 205, 93,
      222, 114, 67, 29, 24, 72, 243, 141, 128, 195, 78, 66, 215, 61, 156, 180
   >>

\* A table whose upper half was never written (a Uint8Array starts as zeros).
permUpperZero == [i \in 0..511 |-> IF i < 256 THEN PermBase[i + 1] ELSE 0]

\* this.perm: perm[i] = perm[i + 256] = p[i]
perm == [i \in 0..511 |-> PermBase[(i % 256) + 1]]

\* k * a for a whole number k
FTimes(a, k) == IF IsNaN(a) THEN NaN ELSE a * k
\* a * (num / den) for a decimal constant num / den of the code
FTimesDec(a, num, den) ==
    IF IsNaN(a) THEN NaN
    ELSE LET m == RoundDiv(Abs(a) * num, den) IN IF a < 0 THEN -m ELSE m
\* Math.floor of a fixed-point value, as a whole number (0 for NaN: NaN & 255 = 0)
MathFloor(a) == IF IsNaN(a) THEN 0 ELSE a \div FixScale
\* Math.abs
MathAbs(a) == IF IsNaN(a) THEN NaN ELSE Abs(a)

\* fade(t) = t * t * t * (t * (t * 6 - 15) + 10)
fade(t) ==
    FMul(FMul(FMul(t, t), t),
         FAdd(FMul(t, FSub(FTimes(t, 6), 15 * FixScale)), 10 * FixScale))

\* lerp(a, b, t) = a + t * (b - a)
lerp(a, b, t) == FAdd(a, FMul(t, FSub(b, a)))

\* grad(hash, x, y, z)
grad(hash, x, y, z) ==
    LET h == hash % 16
        u == IF h < 8 THEN x ELSE y
        v == IF h < 4 THEN y ELSE IF h = 12 \/ h = 14 THEN x ELSE z
    IN  FAdd(IF BitAt(h, 0) = 0 THEN u ELSE FNeg(u),
             IF BitAt(h, 1) = 0 THEN v ELSE FNeg(v))

\* the indices into perm that noise3D computes for the cell (X, Y, Z)
NoiseIndices(X, Y, Z) ==
    LET A == perm[X] + Y
        B == perm[X + 1] + Y
    IN  [A |-> A, AA |-> perm[A] + Z, AB |-> perm[A + 1] + Z,
         B |-> B, BA |-> perm[B] + Z, BB |-> perm[B + 1] + Z]

\* noise3D(x, y, z)
noise3D(x0, y0, z0) ==
    LET X == MathFloor(x0) % 256
        Y == MathFloor(y0) % 256
        Z == MathFloor(z0) % 256
        x == FSub(x0, FTimes(MathFloor(x0), FixScale))
        y == FSub(y0, FTimes(MathFloor(y0), FixScale))
        z == FSub(z0, FTimes(MathFloor(z0), FixScale))
        u == fade(x)
        v == fade(y)
        w == fade(z)
        ix == NoiseIndices(X, Y, Z)
        one == FixScale
    IN  lerp(
            lerp(
                lerp(grad(perm[ix.AA], x, y, z), grad(perm[ix.BA], FSub(x, one), y, z), u),
                lerp(grad(perm[ix.AB], x, FSub(y, one), z),
                     grad(perm[ix.BB], FSub(x, one), FSub(y, one), z), u),
                v),
            lerp(
                lerp(grad(perm[ix.AA + 1], x, y, FSub(z, one)),
                     grad(perm[ix.BA + 1], FSub(x, one), y, FSub(z, one)), u),
                lerp(grad(perm[ix.AB + 1], x, FSub(y, one), FSub(z, one)),
                     grad(perm[ix.BB + 1], FSub(x, one), FSub(y, one), FSub(z, one)), u),
                v),
            w)

----------------------------------------------------------------------------
(* TinyPlanet: the signed distance function *)

\* Resolution of the planet's mesh (the caller in main.js passes 120).
PlanetRes == 4
\* Largest number of mine and place calls of one run.
MaxMods == 2

\* Coordinates are counted in units of 0.1: eps of getNormal is one unit.
eps == 1
\* new THREE.Vector3(0, 0, 0) of createPlanet
center == <<0, 0, 0>>
\* this.radius, chosen with the resolution so that the lattice of
\* generateMesh falls on whole coordinates (cells of 26 units)
radius == 10 * (PlanetRes - 1)

\* lines 80-118 of sdf: the distance to the unmodified terrain
TerrainDist(p) ==
    LET dx == p[1] - center[1]
        dy == p[2] - center[2]
        dz == p[3] - center[3]
        distFromCenter == MathSqrt(dx * dx + dy * dy + dz * dz)
        base == distFromCenter - radius * FixScale
        nx == FDiv(dx * FixScale, distFromCenter)
        ny == FDiv(dy * FixScale, distFromCenter)
        nz == FDiv(dz * FixScale, distFromCenter)
        off == 50 * FixScale
        continentNoise == noise3D(FTimes(nx, 2), FTimes(ny, 2), FTimes(nz, 2))
        continentHeight == FTimesDec(FTimes(continentNoise, radius), 8, 100)
        mountainNoise1 == noise3D(FAdd(FTimes(nx, 4), off), FAdd(FTimes(ny, 4), off),
                                  FAdd(FTimes(nz, 4), off))
        ridged == FSub(FixScale, MathAbs(mountainNoise1))
        mountainHeight == FTimesDec(FTimes(FMul(ridged, ridged), radius), 15, 100)
        hillNoise == noise3D(FTimes(nx, 10), FTimes(ny, 10), FTimes(nz, 10))
        hillHeight == FTimesDec(FTimes(hillNoise, radius), 3, 100)
        microNoise1 == noise3D(FTimes(nx, 25), FTimes(ny, 25), FTimes(nz, 25))
        microNoise2 == noise3D(FTimes(nx, 50), FTimes(ny, 50), FTimes(nz, 50))
        microHeight == FTimes(FAdd(FTimesDec(microNoise1, 15, 1000),
                                   FTimesDec(microNoise2, 8, 1000)), radius)
    IN  FSub(FSub(FSub(FSub(base, continentHeight), mountainHeight), hillHeight),
             microHeight)

\* lines 122-125: the signed distance of p to the sphere of mod
ModDist(p, mod) ==
    LET mdx == p[1] - mod.position[1]
        mdy == p[2] - mod.position[2]
        mdz == p[3] - mod.position[3]
    IN  MathSqrt(mdx * mdx + mdy * mdy + mdz * mdz) - mod.radius * FixScale

\* lines 127-131: one modification applied to the running distance
ApplyMod(dist, p, mod) ==
    IF mod.add THEN MathMin(dist, ModDist(p, mod))
    ELSE MathMax(dist, FNeg(ModDist(p, mod)))

\* The loop over the modifications, newest entry first.
RECURSIVE ModLoopReversed(_, _, _, _)
ModLoopReversed(mods, k, p, dist) ==
    IF k > Len(mods) THEN dist
    ELSE ModLoopReversed(mods, k + 1, p, ApplyMod(dist, p, mods[Len(mods) - k + 1]))

\* "for (const mod of this.modifications)" from entry k on
RECURSIVE ModLoop(_, _, _, _)
ModLoop(mods, k, p, dist) ==
    IF k > Len(mods) THEN dist
    ELSE ModLoop(mods, k + 1, p, ApplyMod(dist, p, mods[k]))

\* the padded bounds of generateMesh and its lattice of samples
MeshBounds ==
    LET padding == RoundDiv(radius * 3, 10)
    IN  <<[j \in 1..3 |-> center[j] - radius - padding],
          [j \in 1..3 |-> center[j] + radius + padding]>>
PlanetPos(i) ==
    [j \in 1..3 |-> MeshBounds[1][j] + i[j] * ScaleOf(MeshBounds, PlanetRes)[j]]
PlanetLattice == {PlanetPos(i) : i \in Lattice(PlanetRes)}

\* The points at which callers ask for the distance or the normal: the
\* planet's centre, a lattice point inside the terrain, one outside it, and
\* a point off the lattice.
InnerPoint == PlanetPos(<<PlanetRes - 2, PlanetRes - 2, PlanetRes - 2>>)
OuterPoint == PlanetPos(<<PlanetRes - 1, PlanetRes - 2, PlanetRes - 2>>)
QueryPoints == {center, InnerPoint, OuterPoint, <<radius, 5, 0>>}
NormalPoints ==
    UNION {{<<q[1] + eps, q[2], q[3]>>, <<q[1] - eps, q[2], q[3]>>,
            <<q[1], q[2] + eps, q[3]>>, <<q[1], q[2] - eps, q[3]>>,
            <<q[1], q[2], q[3] + eps>>, <<q[1], q[2], q[3] - eps>>} : q \in QueryPoints}

\* The terrain is a fixed function of the point (the permutation table never
\* changes): the state keeps its values at the points the model samples.
TerrainTable ==
    [p \in PlanetLattice \cup QueryPoints \cup NormalPoints |-> TerrainDist(p)] @@ << >>

\* sdf(x, y, z) with this.modifications = mods
sdf(p, mods) == ModLoop(mods, 1, p, terrain[p])

----------------------------------------------------------------------------
(* TinyPlanet: the mesh and the operations (specification Spec) *)

\* positions[i * 3 + k] = vertices[i][k]; indices.push(face[0], face[1], face[2])
Flatten(triples) ==
    [n \in 1..(3 * Len(triples)) |-> triples[((n - 1) \div 3) + 1][((n - 1) % 3) + 1]]

\* A generateMesh that leaves the mesh as it is.
generateMeshStale(mods, wf, old) == old

\* generateMesh(): extract over the current sdf, then the new THREE.Mesh
\* (old is the mesh it replaces; colours and shadows are left out)
generateMesh(mods, wf, old) ==
    CHOOSE m \in {[positions |-> Flatten(res.vertices), index |-> Flatten(res.faces),
                   wireframe |-> wf] :
                  res \in {extract([p \in PlanetLattice |-> sdf(p, mods)],
                                   MeshBounds, PlanetRes)}} : TRUE

\* unshift instead of push
PushModFront(mods, position, r, add) ==
    <<[position |-> position, radius |-> r, add |-> add]>> \o mods

\* this.modifications.push({position: position.clone(), radius, add})
PushMod(mods, position, r, add) ==
    Append(mods, [position |-> position, radius |-> r, add |-> add])

\* Vector3.normalize() of three.js: divide by the length, or by 1 if it is 0 or NaN
Normalize(v) ==
    IF IsNaN(v[1]) \/ IsNaN(v[2]) \/ IsNaN(v[3]) THEN <<NaN, NaN, NaN>>
    ELSE LET len == SqrtNearest(v[1] * v[1] + v[2] * v[2] + v[3] * v[3])
         IN  IF len = 0 THEN v ELSE [j \in 1..3 |-> FDiv(v[j], len)]

\* the arguments the callers pass: main.js mines with radius 3 and places with radius 2
MineCenters == {InnerPoint}
MineRadii == {30}
PlaceCenters == {InnerPoint, OuterPoint}
PlaceRadii == {20}

NoExtract ==
    /\ densityFunc = [p \in {} |-> 0]
    /\ bounds = MeshBounds
    /\ resolution = PlanetRes
    /\ pc = "idle"
    /\ cell = FirstCell
    /\ vertices = InitRun.vertices
    /\ faces = InitRun.faces
    /\ vertexBuffer = InitRun.vertexBuffer
    /\ grid = InitRun.grid
    /\ calls = InitRun.calls
    /\ local = InitRun.local
    /\ callNo = 1
    /\ firstResult = NoResult
    /\ result = NoResult

\* new TinyPlanet(scene, center, radius, resolution)
Init ==
    /\ modifications = << >>
    /\ wireframe = FALSE
    /\ terrain = TerrainTable
    /\ mesh = generateMesh(<< >>, FALSE, [positions |-> << >>, index |-> << >>,
                                          wireframe |-> FALSE])
    /\ ret = << >>
    /\ noise = NoNoise
    /\ NoExtract

\* mine(position, radius)
Mine(position, r) ==
    /\ Len(modifications) < MaxMods
    /\ LET mods == PushMod(modifications, position, r, FALSE)
       IN  /\ modifications' = mods
           /\ mesh' = generateMesh(mods, wireframe, mesh)
    /\ ret' = << >>
    /\ UNCHANGED <<wireframe, terrain>>
    /\ UNCHANGED extractVars
    /\ UNCHANGED noiseVars

\* place(position, radius)
Place(position, r) ==
    /\ Len(modifications) < MaxMods
    /\ LET mods == PushMod(modifications, position, r, TRUE)
       IN  /\ modifications' = mods
           /\ mesh' = generateMesh(mods, wireframe, mesh)
    /\ ret' = << >>
    /\ UNCHANGED <<wireframe, terrain>>
    /\ UNCHANGED extractVars
    /\ UNCHANGED noiseVars

\* toggleWireframe()
ToggleWireframe ==
    /\ wireframe' = ~wireframe
    /\ mesh' = [mesh EXCEPT !.wireframe = ~wireframe]
    /\ ret' = <<IF wireframe THEN 0 ELSE 1>>
    /\ UNCHANGED <<modifications, terrain>>
    /\ UNCHANGED extractVars
    /\ UNCHANGED noiseVars

\* getDistance(position)
GetDistance(position) ==
    /\ ret' = <<sdf(position, modifications)>>
    /\ UNCHANGED <<modifications, mesh, wireframe, terrain>>
    /\ UNCHANGED extractVars
    /\ UNCHANGED noiseVars

\* getNormal(position)
GetNormal(position) ==
    /\ LET x == position[1]
           y == position[2]
           z == position[3]
           normal ==
             <<FSub(sdf(<<x + eps, y, z>>, modifications), sdf(<<x - eps, y, z>>, modifications)),
               FSub(sdf(<<x, y + eps, z>>, modifications), sdf(<<x, y - eps, z>>, modifications)),
               FSub(sdf(<<x, y, z + eps>>, modifications), sdf(<<x, y, z - eps>>, modifications))>>
       IN  ret' = Normalize(normal)
    /\ UNCHANGED <<modifications, mesh, wireframe, terrain>>
    /\ UNCHANGED extractVars
    /\ UNCHANGED noiseVars

Next ==
    \/ \E position \in MineCenters, r \in MineRadii : Mine(position, r)
    \/ \E position \in PlaceCenters, r \in PlaceRadii : Place(position, r)
    \/ ToggleWireframe
    \/ \E position \in QueryPoints : GetDistance(position)
    \/ \E position \in QueryPoints : GetNormal(position)

Spec == Init /\ [][Next]_vars

----------------------------------------------------------------------------
(* noise3D on its own: the lookups in the permutation table (specification
   SpecNoise).  A call at a point, then a call at a point of the adjacent
   lattice cell along one axis. *)

\* How far from the ends of 0..255 the y and z cells of the first call lie.
NoiseEdge == 2
EdgeCoords == (0..(NoiseEdge - 1)) \cup ((256 - NoiseEdge)..255)

\* X = Math.floor(x) & 255, and the same for Y and Z
NoiseCell(fl) == <<fl[1] % 256, fl[2] % 256, fl[3] % 256>>

\* every index at which noise3D reads this.perm for the cell c = <<X, Y, Z>>
NoiseReads(c) ==
    LET ix == NoiseIndices(c[1], c[2], c[3])
    IN  {c[1], c[1] + 1, ix.A, ix.A + 1, ix.B, ix.B + 1,
         ix.AA, ix.BA, ix.AB, ix.BB, ix.AA + 1, ix.BA + 1, ix.AB + 1, ix.BB + 1}

\* the hash that noise3D passes to grad for each corner <<dx, dy, dz>> of cell c
CornerHash(c) ==
    LET ix == NoiseIndices(c[1], c[2], c[3])
    IN  (<<0, 0, 0>> :> perm[ix.AA]) @@ (<<1, 0, 0>> :> perm[ix.BA])
        @@ (<<0, 1, 0>> :> perm[ix.AB]) @@ (<<1, 1, 0>> :> perm[ix.BB])
        @@ (<<0, 0, 1>> :> perm[ix.AA + 1]) @@ (<<1, 0, 1>> :> perm[ix.BA + 1])
        @@ (<<0, 1, 1>> :> perm[ix.AB + 1]) @@ (<<1, 1, 1>> :> perm[ix.BB + 1])

\* the lookups of one call whose point has the whole parts fl
NoiseCall(fl, n) ==
    [floor |-> fl, cell |-> NoiseCell(fl), reads |-> NoiseReads(NoiseCell(fl)),
     hash |-> CornerHash(NoiseCell(fl)), calls |-> n]

InitNoise ==
    /\ \E X \in 0..255 : \E Y \in EdgeCoords : \E Z \in EdgeCoords :
          noise = [NoNoise EXCEPT !.floor = <<X, Y, Z>>, !.cell = <<X, Y, Z>>]
    /\ NoExtract
    /\ NoPlanet

\* noise3D(x, y, z) at a point of the cell noise.floor
Noise3D ==
    /\ noise.calls = 0
    /\ noise' = NoiseCall(noise.floor, 1)
    /\ UNCHANGED extractVars
    /\ UNCHANGED planetVars

\* noise3D at the point one unit further along axis A (1 = x, 2 = y, 3 = z)
Noise3DNeighbour(A) ==
    /\ noise.calls = 1
    /\ noise' = NoiseCall([noise.cell EXCEPT ![A] = @ + 1], 2)
    /\ UNCHANGED extractVars
    /\ UNCHANGED planetVars

NextNoise == Noise3D \/ \E A \in 1..3 : Noise3DNeighbour(A)

SpecNoise == InitNoise /\ [][NextNoise]_vars

----------------------------------------------------------------------------
(* Properties of SurfaceNets.extract (specification SpecExtract) *)

\* the cells of the volume in the order of the loops: z outermost, x innermost
CellAt(res, n) ==
    <<n % (res - 1), (n \div (res - 1)) % (res - 1), n \div ((res - 1) * (res - 1))>>
CellSeq(res) ==
    IF res < 2 THEN << >>
    ELSE [n \in 1..((res - 1) * (res - 1) * (res - 1)) |-> CellAt(res, n - 1)]

\* the lattice indices of the eight corners of cell c
CornersOf(c) == {<<c[1] + d[1], c[2] + d[2], c[3] + d[3]>> : d \in {0, 1} \X {0, 1} \X {0, 1}}
\* the field is negative at lattice index i
NegativeAt(i) == densityFunc[LatticePos(resolution, i)] < 0
\* cell c has corners of both signs
NonUniformCell(c) ==
    \E i \in CornersOf(c) : \E k \in CornersOf(c) : NegativeAt(i) /\ ~NegativeAt(k)
NonUniformCells == SelectSeq(CellSeq(resolution), NonUniformCell)

\* C1 as the specification states it: one call of extract with resolution >= 2
\* invokes the field callback exactly resolution^3 times.
C1_CallsResolutionCubed ==
    (pc = "done" /\ resolution >= 2) => calls = resolution * resolution * resolution

\* C1, amended: one call of extract with resolution >= 2 invokes the field
\* callback exactly 8 * (resolution - 1)^3 times, eight times for each of the
\* (resolution - 1)^3 cells (corners shared between cells are sampled again).
C1_CallsEightPerCell ==
    (pc = "done" /\ resolution >= 2) =>
        calls = 8 * (resolution - 1) * (resolution - 1) * (resolution - 1)

\* a call with resolution 3 has returned: 64 invocations, not 27
C1_Witness == pc = "done" /\ resolution = 3 /\ calls = 64

\* C7: two calls of extract with the same field, bounds and resolution return
\* identical vertex lists and identical face lists; the second call starts
\* from fresh locals, whatever the first call wrote.
C7_Idempotent ==
    /\ (pc = "done" /\ callNo = 2) => result = firstResult
    /\ (pc = "march" /\ callNo = 2 /\ cell = FirstCell) =>
            (vertices = << >> /\ faces = << >> /\ vertexBuffer = EmptyMap)

\* the second call has returned a mesh with faces
C7_Witness == pc = "done" /\ callNo = 2 /\ Len(result.faces) > 0 /\ Len(firstResult.faces) > 0

\* every sample on the boundary of the sampled volume is non-negative
BoundaryNonNegative ==
    \A i \in Lattice(resolution) :
        (\E j \in 1..3 : i[j] = 0 \/ i[j] = resolution - 1) => ~NegativeAt(i)
\* the undirected edges of a triangle, and the triangles of fs that hold edge e
TriangleEdges(t) == {{t[1], t[2]}, {t[2], t[3]}, {t[1], t[3]}}
TrianglesWith(fs, e) == {k \in 1..Len(fs) : e \in TriangleEdges(fs[k])}
Closed(fs) ==
    \A k \in 1..Len(fs) : \A e \in TriangleEdges(fs[k]) :
        /\ Cardinality(e) = 2
        /\ Cardinality(TrianglesWith(fs, e)) > 0
        /\ Cardinality(TrianglesWith(fs, e)) % 2 = 0

\* C8: when every sample on the boundary of the volume is non-negative, the
\* returned mesh is closed: every undirected edge of an output triangle lies
\* in an even, non-zero number of output triangles.
C8_Watertight == (pc = "done" /\ BoundaryNonNegative) => Closed(result.faces)

\* a mesh with faces was returned for a field that is non-negative on the boundary
C8_Witness == pc = "done" /\ BoundaryNonNegative /\ Len(result.faces) >= 12

\* C9: on return there is exactly one vertex for every non-uniform cell and
\* none for a uniform cell; the i-th vertex belongs to the i-th non-uniform
\* cell in (z, y, x) order; the cell-to-index map holds exactly the
\* non-uniform cells, with pairwise distinct indices.
C9_OneVertexPerCell ==
    pc = "done" =>
        \A nu \in {NonUniformCells} :
            /\ Len(vertices) = Len(nu)
            /\ DOMAIN vertexBuffer = {nu[i] : i \in 1..Len(nu)}
            /\ \A i \in 1..Len(nu) : vertexBuffer[nu[i]] = i - 1
            /\ \A c \in DOMAIN vertexBuffer : \A d \in DOMAIN vertexBuffer :
                  vertexBuffer[c] = vertexBuffer[d] => c = d

\* a call has returned with vertices for some cells and none for others,
\* an all-negative cell among the latter
C9_Witness ==
    /\ pc = "done"
    /\ Len(vertices) >= 2
    /\ \E i \in 1..Len(CellSeq(resolution)) :
          \A k \in CornersOf(CellSeq(resolution)[i]) : NegativeAt(k)

\* C10: edgeTable[m] is zero exactly for the masks 0x00 and 0xFF, and every
\* cell that reaches the averaging step has vertCount >= 1.
C10_EdgeTable ==
    /\ (pc = "idle" /\ callNo = 1) =>
            \A m \in 0..255 : (edgeTable[m] = 0) <=> (m = 0 \/ m = 255)
    /\ (pc = "march" /\ local.averaged) => local.vertCount >= 1

\* a cell has just been averaged over its crossing edges
C10_Witness == pc = "march" /\ local.averaged /\ local.vertCount >= 3 /\ local.mask = 15

\* the input of the call is invalid: a resolution below 2, or bounds that are
\* empty or inverted on some axis
InvalidInput ==
    \/ resolution < 2
    \/ \E j \in 1..3 : bounds[1][j] >= bounds[2][j]

\* C12: a call of extract with invalid input fails fast at the call boundary:
\* when it has returned, the field was never sampled and what came back is an
\* error outcome, not a mesh (no vertices and faces lists).
C12_InvalidInputFailsFast ==
    (pc = "done" /\ InvalidInput) =>
        /\ calls = 0
        /\ DOMAIN result \cap {"vertices", "faces"} = {}

\* the lattice index one step from i along axis A (1 = x, 2 = y, 3 = z)
StepAlong(i, A) == <<i[1] + (IF A = 1 THEN 1 ELSE 0), i[2] + (IF A = 2 THEN 1 ELSE 0),
                     i[3] + (IF A = 3 THEN 1 ELSE 0)>>
\* the four cells that share the lattice edge leaving corner 0 of cell c along A
QuadCells(c, A) ==
    {<<c[1] - d[1], c[2] - d[2], c[3] - d[3]>> :
        d \in {e \in {0, 1} \X {0, 1} \X {0, 1} : e[A] = 0}}
\* the samples at the two ends of that edge differ in sign
CrossingEdge(c, A) == NegativeAt(c) # NegativeAt(StepAlong(c, A))
\* the four cells around the edge all lie inside the lattice
InnerEdge(c, A) == \A j \in (1..3) \ {A} : c[j] > 0
\* the edges that must be stitched, as <<cell, axis>>
CellSet(res) == {CellSeq(res)[n] : n \in 1..Len(CellSeq(res))}
QuadEdges ==
    {q \in CellSet(resolution) \X (1..3) : CrossingEdge(q[1], q[2]) /\ InnerEdge(q[1], q[2])}
\* the vertex indices recorded for the cells around edge q
QuadIndices(q) == {vertexBuffer[n] : n \in QuadCells(q[1], q[2]) \cap DOMAIN vertexBuffer}
\* the faces of fs whose three indices are vertices of the cells around edge q
FacesOfEdge(fs, q) ==
    UNION {{k \in 1..Len(fs) : {fs[k][1], fs[k][2], fs[k][3]} \subseteq qi} :
              qi \in {QuadIndices(q)}}

\* C13: every quad is produced exactly once.  The returned face list holds
\* exactly two triangles for each lattice edge whose endpoint samples differ
\* in sign and whose four sharing cells lie inside the lattice, the two
\* triangles together using the vertices of all four cells, and it holds no
\* other face; no such quad is dropped for a missing neighbour vertex.
C13_EveryQuadOnce ==
    pc = "done" =>
        \A qe \in {QuadEdges} :
            /\ Len(result.faces) = 2 * Cardinality(qe)
            /\ \A q \in qe :
                  /\ QuadCells(q[1], q[2]) \subseteq DOMAIN vertexBuffer
                  /\ \A fe \in {FacesOfEdge(result.faces, q)} :
                        /\ Cardinality(fe) = 2
                        /\ UNION {{result.faces[k][1], result.faces[k][2], result.faces[k][3]} :
                                      k \in fe} = QuadIndices(q)
            /\ \A k \in 1..Len(result.faces) :
                  \E q \in qe : {result.faces[k][1], result.faces[k][2], result.faces[k][3]}
                                    \subseteq QuadIndices(q)

\* a mesh was returned with quads on all three axes, for a field that also
\* has a sign change on an edge at the border of the lattice (not stitched)
C13_Witness ==
    /\ pc = "done"
    /\ \A A \in 1..3 : \E q \in QuadEdges : q[2] = A
    /\ \E c \in CellSet(resolution) : \E A \in 1..3 :
          CrossingEdge(c, A) /\ ~InnerEdge(c, A)

\* the stitching of one axis (1 = x, 2 = y, 3 = z) for cell c
FacesOfAxis(A, vb, mask, edgeMask, c) ==
    IF A = 1 THEN FacesX(vb, mask, edgeMask, c[1], c[2], c[3])
    ELSE IF A = 2 THEN FacesY(vb, mask, edgeMask, c[1], c[2], c[3])
    ELSE FacesZ(vb, mask, edgeMask, c[1], c[2], c[3])
\* the map m without its entry for key n
Without(m, n) == [k \in (DOMAIN m) \ {n} |-> m[k]]
\* the step of the loop that has just processed the non-uniform cell c = cell
StitchStep == pc = "march" /\ pc' = "march" /\ calls' > calls /\ local'.averaged
\* the condition of C14 for axis A, on the map as the stitching of c sees it
MustAppend(A) ==
    /\ BitAt(local'.edgeMask, A - 1) = 1
    /\ InnerEdge(cell, A)
    /\ QuadCells(cell, A) \subseteq DOMAIN vertexBuffer'
\* the number of faces appended for the axes before A
AppendedBefore(A) == 2 * Cardinality({B \in 1..(A - 1) : MustAppend(B)})

\* C14: for each of the three corner-0 edges (edge-mask bits 0, 1, 2) of a
\* non-uniform cell, two triangles are appended to the face list if and only
\* if the edge bit is set, the cell's coordinates on the two other axes are
\* both greater than 0, and the cell and its three backward neighbours all
\* have recorded vertices; the two triangles use these vertices.  With any of
\* the four vertices missing the stitching of that edge appends nothing, and
\* the loop goes on: the faces so far are kept and the cell's vertex is added.
C14_StitchIffComplete ==
    [][StitchStep =>
        /\ Len(vertices') = Len(vertices) + 1
        /\ Len(faces') = Len(faces) + AppendedBefore(4)
        /\ SubSeq(faces', 1, Len(faces)) = faces
        /\ \A A \in 1..3 :
              /\ MustAppend(A) =>
                    \A k \in 1..2 :
                        \A t \in {faces'[Len(faces) + AppendedBefore(A) + k]} :
                            {t[1], t[2], t[3]} \subseteq
                                {vertexBuffer'[n] : n \in QuadCells(cell, A)}
              /\ \A n \in QuadCells(cell, A) \cap DOMAIN vertexBuffer' :
                    FacesOfAxis(A, Without(vertexBuffer', n), local'.mask,
                                local'.edgeMask, cell) = << >>]_vars

\* a cell has just been stitched on one axis and not on another, whose edge
\* bit is set but whose backward neighbours would lie outside the lattice
C14_Witness ==
    /\ pc = "march"
    /\ local.averaged
    /\ Len(faces) >= 2
    /\ \E A \in 1..3 : \E B \in 1..3 :
          /\ BitAt(local.edgeMask, A - 1) = 1 /\ InnerEdge(local.cell, A)
          /\ QuadCells(local.cell, A) \subseteq DOMAIN vertexBuffer
          /\ BitAt(local.edgeMask, B - 1) = 1 /\ ~InnerEdge(local.cell, B)

\* the cell whose vertex has index i in the map vb
CellOfIndex(vb, i) == CHOOSE n \in DOMAIN vb : vb[n] = i
\* (b - a) x (c - a)
Cross(a, b, c) ==
    LET u == <<b[1] - a[1], b[2] - a[2], b[3] - a[3]>>
        w == <<c[1] - a[1], c[2] - a[2], c[3] - a[3]>>
    IN  <<u[2] * w[3] - u[3] * w[2], u[3] * w[1] - u[1] * w[3], u[1] * w[2] - u[2] * w[1]>>
\* the normal of triangle t, every vertex taken at the lattice coordinate of its cell
LatticeNormal(vb, t) ==
    Cross(CellOfIndex(vb, t[1]), CellOfIndex(vb, t[2]), CellOfIndex(vb, t[3]))

\* C15: every emitted triangle is wound so that its normal points from the
\* inside (negative) end of the crossing edge to the outside.  With each
\* vertex taken at its cell's integer lattice coordinate, the cross product
\* (b - a) x (c - a) of every triangle emitted for axis A is non-zero only
\* along A, positive when corner 0 of the emitting cell is inside (mask & 1
\* set, the sample at corner 0 negative) and negative when it is outside;
\* this holds for all three axes.
C15_WindingFollowsSign ==
    [][StitchStep =>
        /\ (BitAt(local'.mask, 0) = 1) <=> NegativeAt(cell)
        /\ \A A \in 1..3 : MustAppend(A) =>
              \A k \in 1..2 :
                  \A nrm \in {LatticeNormal(vertexBuffer',
                                            faces'[Len(faces) + AppendedBefore(A) + k])} :
                      /\ \A j \in (1..3) \ {A} : nrm[j] = 0
                      /\ IF BitAt(local'.mask, 0) = 1 THEN nrm[A] > 0 ELSE nrm[A] < 0]_vars

\* triangles of both orientations have been emitted, the last ones by a cell
\* whose corner 0 is inside
C15_Witness ==
    /\ pc = "march"
    /\ local.averaged
    /\ BitAt(local.mask, 0) = 1
    /\ \E A \in 1..3 :
          /\ BitAt(local.edgeMask, A - 1) = 1 /\ InnerEdge(local.cell, A)
          /\ QuadCells(local.cell, A) \subseteq DOMAIN vertexBuffer
    /\ \E k \in 1..Len(faces) : \E l \in 1..Len(faces) :
          \E j \in 1..3 : /\ LatticeNormal(vertexBuffer, faces[k])[j] > 0
                          /\ LatticeNormal(vertexBuffer, faces[l])[j] < 0

\* the position of cell c in the order of the loops, from 0
CellIndex(res, c) == c[1] + (res - 1) * c[2] + (res - 1) * (res - 1) * c[3]
\* c is a cell of the volume: every coordinate in [0, res-2]
IsCell(res, c) == \A j \in 1..3 : c[j] >= 0 /\ c[j] <= res - 2
\* one iteration of the innermost loop, for the cell c = cell
CellStep == pc = "march" /\ pc' = "march" /\ calls' > calls
\* the vertex-map keys that the stitching of cell c reads for its neighbours
NeighbourReads(c, edgeMask) ==
    UNION {IF BitAt(edgeMask, A - 1) = 1 /\ InnerEdge(c, A)
           THEN QuadCells(c, A) \ {c} ELSE {} : A \in 1..3}

\* C16: the cells are visited in (z, y, x) order over [0, res-2]^3, and the
\* stitching only looks backward.  Whenever the stitching of cell c reads the
\* vertex map for a neighbour n, n precedes c in the visit order and has been
\* completely processed: the map holds n exactly when n is non-uniform (its
\* final status), and no later step changes what the lookup returns.
C16_StitchLooksBackward ==
    [][/\ CellStep =>
            /\ local'.cell = cell
            /\ calls = 0 => cell = FirstCell
            /\ IsCell(resolution, cell)
            /\ InLoop(resolution, cell') =>
                  CellIndex(resolution, cell') = CellIndex(resolution, cell) + 1
            /\ \A m \in DOMAIN vertexBuffer :
                  /\ IsCell(resolution, m)
                  /\ CellIndex(resolution, m) < CellIndex(resolution, cell)
            /\ \A n \in NeighbourReads(cell, local'.edgeMask) \cup {cell} :
                  (n \in DOMAIN vertexBuffer') <=> NonUniformCell(n)
            /\ \A n \in NeighbourReads(cell, local'.edgeMask) :
                  /\ IsCell(resolution, n)
                  /\ CellIndex(resolution, n) < CellIndex(resolution, cell)
                  /\ MapGet(vertexBuffer', n) = MapGet(vertexBuffer, n)
            /\ DOMAIN vertexBuffer' \subseteq DOMAIN vertexBuffer \cup {cell}
       /\ (pc = "march" /\ pc' \in {"march", "done"}) =>
            \A k \in DOMAIN vertexBuffer :
                k \in DOMAIN vertexBuffer' /\ vertexBuffer'[k] = vertexBuffer[k]
       /\ (pc = "march" /\ pc' = "done" /\ resolution >= 2) =>
            /\ cell = <<0, 0, resolution - 1>>
            /\ \A m \in CellSet(resolution) : (m \in DOMAIN vertexBuffer) <=> NonUniformCell(m)
      ]_vars

\* a cell beyond the first slab has just been stitched to its backward
\* neighbours, while an earlier cell is uniform and has no vertex
C16_Witness ==
    /\ pc = "march"
    /\ local.averaged
    /\ local.cell[3] >= 1
    /\ NeighbourReads(local.cell, local.edgeMask) # {}
    /\ NeighbourReads(local.cell, local.edgeMask) \subseteq DOMAIN vertexBuffer
    /\ \E m \in CellSet(resolution) :
          /\ CellIndex(resolution, m) < CellIndex(resolution, local.cell)
          /\ m \notin DOMAIN vertexBuffer

\* every index of every face of fs names one of the first n vertices, and the
\* three indices of each face are pairwise distinct
ValidFaces(fs, n) ==
    \A k \in 1..Len(fs) :
        /\ \A j \in 1..3 : fs[k][j] >= 0 /\ fs[k][j] < n
        /\ fs[k][1] # fs[k][2] /\ fs[k][2] # fs[k][3] /\ fs[k][1] # fs[k][3]

\* C18: at every point during extract, and in the returned mesh, every face
\* index is valid (0 <= index < number of vertices so far) and the three
\* indices of each triangle are pairwise distinct.
C18_FaceIndicesValid ==
    /\ ValidFaces(faces, Len(vertices))
    /\ ValidFaces(result.faces, Len(result.vertices))

\* the march is under way, and a face uses the vertex added last
C18_Witness ==
    /\ pc = "march"
    /\ InLoop(resolution, cell)
    /\ Len(faces) >= 2
    /\ \E j \in 1..3 : faces[Len(faces)][j] = Len(vertices) - 1

----------------------------------------------------------------------------
(* Properties of TinyPlanet (specification Spec) *)

\* extract run on the sdf that folds in the list mods
MeshOf(mods) == extract([p \in PlanetLattice |-> sdf(p, mods)], MeshBounds, PlanetRes)
\* the mesh m holds the vertices and the faces of the extraction r
ShowsExtraction(m, r) == m.positions = Flatten(r.vertices) /\ m.index = Flatten(r.faces)

\* C2: in every state the planet can be in between two calls, its mesh is the
\* result of extract on the sdf that folds in the complete modification list.
C2_MeshIsCurrent ==
    \A r \in {MeshOf(modifications)} : ShowsExtraction(mesh, r)

\* two edits have returned, and the mesh differs from the one of the list
\* without its last entry
C2_Witness ==
    /\ Len(modifications) = 2
    /\ \A r \in {MeshOf(SubSeq(modifications, 1, 1))} : ~ShowsExtraction(mesh, r)

\* C3: the modification list is append-only.  A mine or place call appends
\* exactly one entry, with the given centre and radius and add = FALSE for
\* mine, add = TRUE for place; every other step leaves the list as it is; no
\* step removes, reorders or changes an earlier entry.
C3_AppendOnly ==
    [][/\ Len(modifications') >= Len(modifications)
       /\ SubSeq(modifications', 1, Len(modifications)) = modifications
       /\ \A position \in MineCenters, r \in MineRadii :
             Mine(position, r) =>
                modifications' = Append(modifications,
                                        [position |-> position, radius |-> r, add |-> FALSE])
       /\ \A position \in PlaceCenters, r \in PlaceRadii :
             Place(position, r) =>
                modifications' = Append(modifications,
                                        [position |-> position, radius |-> r, add |-> TRUE])
       /\ (\/ ToggleWireframe
           \/ \E position \in QueryPoints : GetDistance(position)
           \/ \E position \in QueryPoints : GetNormal(position))
             => modifications' = modifications]_vars

\* a mine and then a place have returned, each entry where its call put it
C3_Witness ==
    /\ Len(modifications) = 2
    /\ ~modifications[1].add /\ modifications[1].position = InnerPoint
    /\ modifications[2].add /\ modifications[2].position = OuterPoint

\* min and max as Math.min and Math.max compute them
FoldMin(d, m) == IF IsNaN(d) \/ IsNaN(m) THEN NaN ELSE IF d <= m THEN d ELSE m
FoldMax(d, m) == IF IsNaN(d) \/ IsNaN(m) THEN NaN ELSE IF d >= m THEN d ELSE m
\* the signed distance of p to the sphere of entry e
SphereDistance(p, e) ==
    MathSqrt((p[1] - e.position[1]) * (p[1] - e.position[1])
             + (p[2] - e.position[2]) * (p[2] - e.position[2])
             + (p[3] - e.position[3]) * (p[3] - e.position[3])) - e.radius * FixScale
\* the left fold of the list over the unmodified terrain distance of p
RECURSIVE FoldLeft(_, _)
FoldLeft(mods, p) ==
    IF Len(mods) = 0 THEN terrain[p]
    ELSE LET e == mods[Len(mods)]
             d == FoldLeft(SubSeq(mods, 1, Len(mods) - 1), p)
         IN  IF e.add THEN FoldMin(d, SphereDistance(p, e))
             ELSE FoldMax(d, -SphereDistance(p, e))

\* C4: at every point, sdf returns the left fold, in insertion order, of the
\* modification list over the unmodified terrain distance: an Add entry maps
\* the running value d to min(d, m), a Subtract entry to max(d, -m), m being
\* the distance to the entry's centre minus its radius.
C4_SdfIsLeftFold ==
    \A p \in QueryPoints : sdf(p, modifications) = FoldLeft(modifications, p)

\* the list with its entries in the opposite order
Reversed(mods) == [k \in 1..Len(mods) |-> mods[Len(mods) - k + 1]]
\* a Subtract and an Add overlap at a point where their order decides the value
C4_Witness ==
    /\ Len(modifications) = 2
    /\ modifications[1].add # modifications[2].add
    /\ \E p \in QueryPoints :
          /\ ~IsNaN(sdf(p, modifications))
          /\ FoldLeft(modifications, p) # FoldLeft(Reversed(modifications), p)

\* C5: appending one modification moves the distance at every point only in
\* the direction of its mode: after a place the distance is less than or
\* equal to the distance before it, after a mine greater than or equal.
C5_Monotone ==
    \A p \in QueryPoints : \A k \in 1..Len(modifications) :
        \A before \in {sdf(p, SubSeq(modifications, 1, k - 1))} :
            \A after \in {sdf(p, SubSeq(modifications, 1, k))} :
                IF modifications[k].add THEN FLeq(after, before) ELSE FLeq(before, after)

\* p lies strictly inside, or strictly outside, the sphere of entry e
StrictlyInside(p, e) == SphereDistance(p, e) < 0
StrictlyOutside(p, e) == SphereDistance(p, e) > 0

\* C6: the last-applied modification wins.  If entry k is the last whose
\* sphere strictly contains p, and p is strictly outside the spheres of all
\* later entries, then sdf(p) < 0 when entry k is an Add and sdf(p) > 0 when
\* it is a Subtract.
C6_LastWins ==
    \A p \in QueryPoints : \A k \in 1..Len(modifications) :
        (/\ StrictlyInside(p, modifications[k])
         /\ \A j \in (k + 1)..Len(modifications) : StrictlyOutside(p, modifications[j]))
        => IF modifications[k].add THEN FLt(sdf(p, modifications), 0)
           ELSE FLt(0, sdf(p, modifications))

\* C11: sdf at the exact planet centre returns a defined, finite distance:
\* the normalisation of the centre-to-point vector is guarded, so the value
\* at the centre is neither NaN nor infinite, whatever the modifications.
C11_CentreIsFinite ==
    \A d \in {sdf(center, modifications)} :
        ~IsNaN(d) /\ d < Infinity /\ d > -Infinity

----------------------------------------------------------------------------
(* Properties of noise3D (specification SpecNoise) *)

\* the +1 corner along axis A that is corner d (d[A] = 0) of the next cell
PlusCorner(d, A) == [d EXCEPT ![A] = 1]

\* C17: the doubling of the permutation table makes every lookup of noise3D
\* in-bounds and seamless.  For cells X, Y, Z in 0..255 every index at which
\* noise3D reads perm lies in 0..511, and the hash of a lattice corner
\* reached as the +1 corner of a cell along some axis equals the hash of the
\* same corner reached as the 0 corner of the adjacent cell, whose
\* coordinate is (coordinate + 1) & 255, the wrap from 255 to 0 included.
C17_PermDoubling ==
    [][/\ noise'.reads \subseteq 0..511
       /\ \A A \in 1..3 :
             (/\ noise.calls = 1 /\ noise'.calls = 2
              /\ noise'.floor = [noise.cell EXCEPT ![A] = @ + 1])
             => /\ noise'.cell = [noise.cell EXCEPT ![A] = (@ + 1) % 256]
                /\ \A d \in {e \in {0, 1} \X {0, 1} \X {0, 1} : e[A] = 0} :
                      noise'.hash[d] = noise.hash[PlusCorner(d, A)]]_vars

\* the second call is in the cell reached by the wrap from 255 to 0, and it
\* reads the table at its last index
C17_Witness ==
    /\ noise.calls = 2
    /\ \E A \in 1..3 : noise.floor[A] = 256 /\ noise.cell[A] = 0
    /\ 511 \in noise.reads

====
